---- MODULE Spec2Model ----
(***************************************************************************)
(* financeiro-bot (src/app.py): a webhook receives a chat message, routes  *)
(* it by keyword to one of five handlers, and each handler reads or writes *)
(* three PostgreSQL tables (usuarios, transacoes, orcamentos) over its own *)
(* psycopg2 connection.                                                    *)
(*                                                                         *)
(* Amounts are whole currency units (the NUMERIC columns are exact); a     *)
(* number formatted with ':.2f' is carried in hundredths.                  *)
(*                                                                         *)
(* Library facts the handlers depend on:                                   *)
(*  - psycopg2 opens a transaction with the first statement; nothing is    *)
(*    visible to other connections before conn.commit(), and a connection  *)
(*    that is dropped without commit is rolled back; a connection object   *)
(*    nobody closed is closed when the runtime finalizes it;               *)
(*  - cursor.fetchone() is None when the query has no row, a one-column    *)
(*    row holding None when an aggregate ran over no rows;                 *)
(*  - NUMERIC values arrive as decimal.Decimal; Decimal * float raises     *)
(*    TypeError, Decimal > float is a valid comparison;                    *)
(*  - a value longer than a VARCHAR(n) column raises DataError;            *)
(*  - matplotlib's pie() raises ValueError when a wedge size is negative.  *)
(***************************************************************************)
EXTENDS Integers, Sequences, FiniteSets, Bags, TLC

VARIABLES
    usuarios,     \* committed rows of table usuarios: [telefone, saldo]
    transacoes,   \* committed rows of table transacoes, a bag of [usuario, valor, categoria]
    orcamentos,   \* committed rows of table orcamentos: [categoria, limite]
    abertas,      \* connections the handler of the last message left open behind it
    resposta,     \* the reply the webhook produced for the last message
    rota,         \* the handler the last message was routed to
    remetente,    \* the sender (telefone) of the last message
    pc,           \* concurrent requests: position of each request
    req,          \* concurrent requests: [telefone, valor, categoria] of each request
    pend,         \* concurrent requests: the usuarios row written, not yet committed
    bloqueio      \* concurrent requests: which request holds the row lock of a telefone

tabelas == <<usuarios, transacoes, orcamentos>>
seq_vars == <<abertas, resposta, rota, remetente>>
conc_vars == <<pc, req, pend, bloqueio>>
vars == <<usuarios, transacoes, orcamentos, abertas, resposta, rota, remetente,
          pc, req, pend, bloqueio>>

----------------------------------------------------------------------------
(* Bounds and input sets *)

MaxTrans == 2       \* rows of transacoes the model lets exist
NumProcs == 2       \* concurrent requests

Telefones == {"t1", "t2"}

Procs == 1..NumProcs
SemPedido == [telefone |-> "", valor |-> 0, categoria |-> ""]

\* 51 characters: one more than transacoes.categoria VARCHAR(50) holds
CategoriaLonga == "lllllllllllllllllllllllllllllllllllllllllllllllllll"

PalavrasChave == {"saldo", "adicionar", "relatório", "orçamento", "investir"}

\* The texts of the inbound messages, already lower-cased and split on
\* whitespace: the bare keywords, a greeting, the empty text, the add and
\* budget commands with well- and ill-formed arguments, and texts holding
\* two keywords.
Mensagens ==
    {<<>>, <<"oi">>}
    \cup {<<k>> : k \in PalavrasChave}
    \cup {<<"adicionar", v>> : v \in {"10", "-8", "abc"}}
    \cup {<<"adicionar", v, "lazer">> : v \in {"10", "-8", "abc"}}
    \cup {<<"adicionar", "10", CategoriaLonga>>, <<"adicionar", "10", "saldo">>,
          <<"adicionar", "10", "lazer", "orçamento">>}
    \cup {<<"orçamento", "lazer">>, <<"orçamento", "lazer", "abc">>}
    \cup {<<"orçamento", c, l>> : c \in {"lazer", "casa"}, l \in {"10", "-8"}}
    \cup {<<"orçamento", "lazer", "10", k>> : k \in {"adicionar", "relatório", "investir"}}
    \cup {<<"investir", "10", "relatório">>, <<"relatório", "saldo">>,
          <<"investir", "orçamento">>}

----------------------------------------------------------------------------
(* Pure helpers *)

\* a float() that takes every token
NumericoTudo(tok) == TRUE

\* float(tok): defined for the numeric tokens, ValueError otherwise
Numerico(tok) == tok \in {"10", "-8"}

\* float(tok), read only where float() does not raise
Float(tok) == IF tok = "10" THEN 10 ELSE IF tok = "-8" THEN 0 - 8 ELSE 0

\* 'kw' in texto
Contem(texto, kw) == \E i \in DOMAIN texto : texto[i] = kw

\* a number as ':.2f' prints it, in hundredths
Centavos(v) == v * 100

RECURSIVE SomaValores(_, _)
\* SUM(valor) over the rows of bag b that are in set s (0 when there is none)
SomaValores(b, s) ==
    IF s = {} THEN 0
    ELSE LET r == CHOOSE x \in s : TRUE
         IN  r.valor * CopiesIn(r, b) + SomaValores(b, s \ {r})

LinhasDe(b, tel) == {r \in BagToSet(b) : r.usuario = tel}

\* the replies
Resp(tipo, num, txt) == [tipo |-> tipo, num |-> num, txt |-> txt, midia |-> FALSE]
SaldoMsg(v) == Resp("saldo", Centavos(v), "")
Sucesso == Resp("sucesso", 0, "")
Imagem(tel) == Resp("imagem", 0, tel)
OrcamentoMsg(cat, lim) == Resp("orcamento", Centavos(lim), cat)
Invista(c) == Resp("invista", c, "")
Dividas == Resp("dividas", 0, "")
NaoReconhecido == Resp("desconhecido", 0, "")
Erro(e) == Resp("erro", 0, e)                 \* f"Erro: {str(e)}"

\* str(e) of the exceptions the handlers raise
IndexErro == "list index out of range"
FloatErro(tok) == "could not convert string to float: '" \o tok \o "'"
NoneErro == "'NoneType' object is not subscriptable"
DecimalErro == "unsupported operand type(s) for *: 'decimal.Decimal' and 'float'"
ColunaErro == "value too long for type character varying(50)"
PieErro == "Wedge sizes 'x' must be non negative values"

\* webhook: a reply that ends in '.png' becomes a text-plus-media message
webhook(r) == [r EXCEPT !.midia = (r.tipo = "imagem")]

----------------------------------------------------------------------------
(* The store: statements of the handlers on the committed tables *)

TemLinha(u, tel) == \E r \in u : r.telefone = tel

\* SELECT saldo FROM usuarios WHERE telefone = tel, where the row exists
SelectSaldo(u, tel) == (CHOOSE r \in u : r.telefone = tel).saldo

\* the upsert as it would be with SET saldo = EXCLUDED.saldo
UpsertSaldoSobrescreve(u, tel, valor) ==
    {r \in u : r.telefone # tel} \cup {[telefone |-> tel, saldo |-> valor]}

\* INSERT INTO usuarios ... ON CONFLICT (telefone) DO UPDATE
\*   SET saldo = usuarios.saldo + EXCLUDED.saldo
UpsertSaldo(u, tel, valor) ==
    IF TemLinha(u, tel)
    THEN {IF r.telefone = tel THEN [r EXCEPT !.saldo = r.saldo + valor] ELSE r : r \in u}
    ELSE u \cup {[telefone |-> tel, saldo |-> valor]}

\* INSERT INTO transacoes (usuario, valor, categoria)
InsertTransacao(b, tel, valor, categoria) ==
    b (+) SetToBag({[usuario |-> tel, valor |-> valor, categoria |-> categoria]})

\* the upsert as it would be with ON CONFLICT (categoria) DO NOTHING
UpsertLimiteIgnora(o, categoria, limite) ==
    IF \E r \in o : r.categoria = categoria
    THEN o
    ELSE o \cup {[categoria |-> categoria, limite |-> limite]}

\* INSERT INTO orcamentos ... ON CONFLICT (categoria) DO UPDATE SET limite = EXCLUDED.limite
UpsertLimite(o, categoria, limite) ==
    IF \E r \in o : r.categoria = categoria
    THEN {IF r.categoria = categoria THEN [r EXCEPT !.limite = limite] ELSE r : r \in o}
    ELSE o \cup {[categoria |-> categoria, limite |-> limite]}

\* a connection in autocommit mode: every statement that ran is kept
ConfirmadoAuto(commit, antes, depois) == depois

\* What a connection leaves in a table: its writes once conn.commit() ran,
\* nothing when the handler left before it
Confirmado(commit, antes, depois) == IF commit THEN depois ELSE antes

\* SELECT categoria, SUM(valor) ... WHERE usuario = tel GROUP BY categoria
CategoriasDe(b, tel) == {r.categoria : r \in LinhasDe(b, tel)}
TotalDe(b, tel, cat) == SomaValores(b, {r \in LinhasDe(b, tel) : r.categoria = cat})

\* SELECT SUM(valor) ... WHERE usuario = tel AND valor > 0
Positivas(b, tel) == {r \in LinhasDe(b, tel) : r.valor > 0}

----------------------------------------------------------------------------
(* The handlers, each one whole call *)

\* the handler returns r having skipped conn.close() on `vaza` connections:
\* each is still open at the reply unless the runtime has already finalized
\* the unreferenced connection object (reference counting does so at once,
\* other collectors later or never)
Retorna(r, vaza) ==
    /\ abertas' \in 0..vaza
    /\ resposta' = webhook(r)

\* the handler raises e; processar_mensagem catches it and returns the error text
Levanta(e, vaza) == Retorna(Erro(e), vaza)

\* valor = float(partes[1]); categoria = partes[2] if len(partes) > 2 else 'Outros'
Valor(texto) == Float(texto[2])
Categoria(texto) == IF Len(texto) > 2 THEN texto[3] ELSE "Outros"

consultar_saldo(telefone) ==
    /\ UNCHANGED tabelas
    /\ IF ~TemLinha(usuarios, telefone)
       THEN Levanta(NoneErro, 1)                  \* fetchone() is None; conn stays open
       ELSE Retorna(SaldoMsg(SelectSaldo(usuarios, telefone)), 0)

registrar_transacao(texto, telefone) ==
    IF Len(texto) < 2 THEN UNCHANGED tabelas /\ Levanta(IndexErro, 0)
    ELSE IF ~Numerico(texto[2]) THEN UNCHANGED tabelas /\ Levanta(FloatErro(texto[2]), 0)
    ELSE
      LET valor == Valor(texto)
          categoria == Categoria(texto)
          inseriu == Len(categoria) <= 50         \* transacoes.categoria VARCHAR(50)
          \* the two statements inside the connection's transaction; the
          \* second writes nothing when it raises
          u1 == UpsertSaldo(usuarios, telefone, valor)
          t1 == IF inseriu THEN InsertTransacao(transacoes, telefone, valor, categoria)
                ELSE transacoes
      IN  /\ inseriu => BagCardinality(transacoes) < MaxTrans
          /\ usuarios' = Confirmado(inseriu, usuarios, u1)
          /\ transacoes' = Confirmado(inseriu, transacoes, t1)
          /\ UNCHANGED orcamentos
          /\ IF inseriu THEN Retorna(Sucesso, 0) ELSE Levanta(ColunaErro, 1)

gerar_relatorio(telefone) ==
    /\ UNCHANGED tabelas
    /\ IF \E c \in CategoriasDe(transacoes, telefone) : TotalDe(transacoes, telefone, c) < 0
       THEN Levanta(PieErro, 1)                    \* plt.pie: negative wedge size
       ELSE Retorna(Imagem(telefone), 1)           \* conn is never closed

definir_orcamento(texto) ==
    IF Len(texto) < 3 THEN UNCHANGED tabelas /\ Levanta(IndexErro, 0)
    ELSE IF ~Numerico(texto[3]) THEN UNCHANGED tabelas /\ Levanta(FloatErro(texto[3]), 0)
    ELSE
      LET categoria == texto[2]
          limite == Float(texto[3])
      IN  /\ orcamentos' = Confirmado(TRUE, orcamentos, UpsertLimite(orcamentos, categoria, limite))
          /\ UNCHANGED <<usuarios, transacoes>>
          /\ Retorna(OrcamentoMsg(categoria, limite), 0)

sugerir_investimento(telefone) ==
    /\ UNCHANGED tabelas
    /\ LET positivas == Positivas(transacoes, telefone)
           rendaDecimal == positivas # {}          \* SUM is a Decimal, or None -> the int 0
           renda == SomaValores(transacoes, positivas)
       IN  IF ~TemLinha(usuarios, telefone)
           THEN Levanta(NoneErro, 1)               \* fetchone() is None
           ELSE LET saldo == SelectSaldo(usuarios, telefone)
                    saldoDecimal == saldo # 0      \* Decimal('0') or 0 is the int 0
                IN  IF rendaDecimal
                    THEN Levanta(DecimalErro, 1)   \* renda * 0.3: Decimal * float
                    ELSE IF 10 * saldo > 3 * renda
                         THEN IF saldoDecimal
                              THEN Levanta(DecimalErro, 1)   \* saldo * 0.5: Decimal * float
                              ELSE Retorna(Invista(saldo * 50), 1)
                         ELSE Retorna(Dividas, 1)  \* conn is never closed

\* the dispatcher with 'adicionar' tested before 'saldo'
RotaAdicionarPrimeiro(texto) ==
    IF Contem(texto, "adicionar") THEN "adicionar"
    ELSE IF Contem(texto, "saldo") THEN "saldo"
    ELSE IF Contem(texto, "relatório") THEN "relatório"
    ELSE IF Contem(texto, "orçamento") THEN "orçamento"
    ELSE IF Contem(texto, "investir") THEN "investir"
    ELSE "nenhuma"

\* the first keyword of the fixed order that the text holds
Rota(texto) ==
    IF Contem(texto, "saldo") THEN "saldo"
    ELSE IF Contem(texto, "adicionar") THEN "adicionar"
    ELSE IF Contem(texto, "relatório") THEN "relatório"
    ELSE IF Contem(texto, "orçamento") THEN "orçamento"
    ELSE IF Contem(texto, "investir") THEN "investir"
    ELSE "nenhuma"

processar_mensagem(texto, telefone) ==
    LET r == Rota(texto)
    IN  /\ remetente' = telefone
        /\ rota' = r
        /\ UNCHANGED conc_vars
        /\ CASE r = "saldo" -> consultar_saldo(telefone)
             [] r = "adicionar" -> registrar_transacao(texto, telefone)
             [] r = "relatório" -> gerar_relatorio(telefone)
             [] r = "orçamento" -> definir_orcamento(texto)
             [] r = "investir" -> sugerir_investimento(telefone)
             [] OTHER -> UNCHANGED tabelas /\ Retorna(NaoReconhecido, 0)

----------------------------------------------------------------------------
(* One message at a time: the webhook handles each message to its reply *)

MsgSaldo == \E tel \in Telefones, txt \in Mensagens :
    Rota(txt) = "saldo" /\ processar_mensagem(txt, tel)
MsgAdicionar == \E tel \in Telefones, txt \in Mensagens :
    Rota(txt) = "adicionar" /\ processar_mensagem(txt, tel)
MsgRelatorio == \E tel \in Telefones, txt \in Mensagens :
    Rota(txt) = "relatório" /\ processar_mensagem(txt, tel)
MsgOrcamento == \E tel \in Telefones, txt \in Mensagens :
    Rota(txt) = "orçamento" /\ processar_mensagem(txt, tel)
MsgInvestir == \E tel \in Telefones, txt \in Mensagens :
    Rota(txt) = "investir" /\ processar_mensagem(txt, tel)
MsgOutra == \E tel \in Telefones, txt \in Mensagens :
    Rota(txt) = "nenhuma" /\ processar_mensagem(txt, tel)

Init ==
    /\ usuarios = {}
    /\ transacoes = EmptyBag
    /\ orcamentos = {}
    /\ abertas = 0
    /\ resposta = Resp("nenhuma", 0, "")
    /\ rota = "nenhuma"
    /\ remetente = ""
    /\ pc = [p \in Procs |-> "fim"]
    /\ req = [p \in Procs |-> SemPedido]
    /\ pend = [p \in Procs |-> 0]
    /\ bloqueio = [t \in Telefones |-> 0]

Next == MsgSaldo \/ MsgAdicionar \/ MsgRelatorio \/ MsgOrcamento \/ MsgInvestir
        \/ MsgOutra

Spec == Init /\ [][Next]_vars

----------------------------------------------------------------------------
(* Requests handled at the same time: registrar_transacao statement by      *)
(* statement, each request on its own connection (READ COMMITTED).          *)

\* the add commands whose arguments parse
MensagensValidas == {<<"adicionar", "10">>, <<"adicionar", "-8", "lazer">>,
                     <<"adicionar", "10", CategoriaLonga>>}

\* the store before the requests: t1 has one transaction, t2 has no row
UsuariosAntes == {[telefone |-> "t1", saldo |-> 10]}
TransacoesAntes == SetToBag({[usuario |-> "t1", valor |-> 10, categoria |-> "lazer"]})

\* an upsert that does not wait for the row
PodeEscreverSempre(p, tel) == TRUE

\* The upsert writes a row of usuarios: it goes on once no other open
\* transaction holds a write on the row (or on the key) of that telefone
PodeEscrever(p, tel) == bloqueio[tel] = 0

\* partes = texto.split(); valor; categoria; psycopg2.connect
Receber(p) ==
    /\ pc[p] = "inicio"
    /\ \E tel \in Telefones, txt \in MensagensValidas :
          req' = [req EXCEPT ![p] = [telefone |-> tel, valor |-> Valor(txt),
                                     categoria |-> Categoria(txt)]]
    /\ pc' = [pc EXCEPT ![p] = "conectado"]
    /\ UNCHANGED <<tabelas, seq_vars, pend, bloqueio>>

\* the first cursor.execute: the row is locked and written inside the transaction
Upsert(p) ==
    /\ pc[p] = "conectado"
    /\ PodeEscrever(p, req[p].telefone)
    /\ bloqueio' = [bloqueio EXCEPT ![req[p].telefone] = p]
    /\ pend' = [pend EXCEPT ![p] =
                  SelectSaldo(UpsertSaldo(usuarios, req[p].telefone, req[p].valor),
                              req[p].telefone)]
    /\ pc' = [pc EXCEPT ![p] = "atualizou"]
    /\ UNCHANGED <<tabelas, seq_vars, req>>

\* the second cursor.execute: raises on a categoria the column cannot hold,
\* and the handler leaves with its transaction open
Insert(p) ==
    /\ pc[p] = "atualizou"
    /\ pc' = [pc EXCEPT ![p] = IF Len(req[p].categoria) <= 50 THEN "inseriu" ELSE "falhou"]
    /\ UNCHANGED <<tabelas, seq_vars, req, pend, bloqueio>>

\* conn.commit(): both writes become visible, the row lock is released
Commit(p) ==
    /\ pc[p] = "inseriu"
    /\ usuarios' = {r \in usuarios : r.telefone # req[p].telefone}
                     \cup {[telefone |-> req[p].telefone, saldo |-> pend[p]]}
    /\ transacoes' = InsertTransacao(transacoes, req[p].telefone, req[p].valor,
                                     req[p].categoria)
    /\ bloqueio' = [bloqueio EXCEPT ![req[p].telefone] = 0]
    /\ pc' = [pc EXCEPT ![p] = "confirmou"]
    /\ UNCHANGED <<orcamentos, seq_vars, req, pend>>

\* conn.close() and the success reply
Fechar(p) ==
    /\ pc[p] = "confirmou"
    /\ pc' = [pc EXCEPT ![p] = "fim"]
    /\ UNCHANGED <<tabelas, seq_vars, req, pend, bloqueio>>

\* the connection a failed request left open is finalized: its transaction
\* is rolled back and its lock released
Desfazer(p) ==
    /\ pc[p] = "falhou"
    /\ bloqueio' = [bloqueio EXCEPT ![req[p].telefone] = 0]
    /\ pc' = [pc EXCEPT ![p] = "desfeito"]
    /\ UNCHANGED <<tabelas, seq_vars, req, pend>>

InitConc ==
    /\ usuarios = UsuariosAntes
    /\ transacoes = TransacoesAntes
    /\ orcamentos = {}
    /\ abertas = 0
    /\ resposta = Resp("nenhuma", 0, "")
    /\ rota = "nenhuma"
    /\ remetente = ""
    /\ pc = [p \in Procs |-> "inicio"]
    /\ req = [p \in Procs |-> SemPedido]
    /\ pend = [p \in Procs |-> 0]
    /\ bloqueio = [t \in Telefones |-> 0]

NextConc == \E p \in Procs :
    Receber(p) \/ Upsert(p) \/ Insert(p) \/ Commit(p) \/ Fechar(p) \/ Desfazer(p)

SpecConc == InitConc /\ [][NextConc]_vars

----------------------------------------------------------------------------
(* Properties *)

SaldoDe(u, tel) == IF TemLinha(u, tel) THEN SelectSaldo(u, tel) ELSE 0
SomaDe(b, tel) == SomaValores(b, LinhasDe(b, tel))

\* C1: whenever an add command returns the success text, the sender's
\* balance is the balance before plus the amount (0 before when the sender
\* had no row, and there is one row after), the table of transactions gained
\* exactly one row, of that sender, with that amount and that category
\* ('Outros' without a third token), and no other user's row changed.
C1_AdicionarSomaELanca ==
    [][\A tel \in Telefones, txt \in Mensagens :
         (rota' = "adicionar" /\ resposta'.tipo = "sucesso" /\ remetente' = tel
          /\ processar_mensagem(txt, tel))
         => LET valor == Float(txt[2])
                categoria == IF Len(txt) >= 3 THEN txt[3] ELSE "Outros"
            IN  /\ Cardinality({r \in usuarios' : r.telefone = tel}) = 1
                /\ SaldoDe(usuarios', tel) = SaldoDe(usuarios, tel) + valor
                /\ transacoes' = transacoes (+)
                      SetToBag({[usuario |-> tel, valor |-> valor, categoria |-> categoria]})
                /\ {r \in usuarios' : r.telefone # tel} = {r \in usuarios : r.telefone # tel}
      ]_vars

\* an add without category reached a sender who already had a balance
C1_Witness ==
    /\ rota = "adicionar" /\ resposta.tipo = "sucesso"
    /\ SaldoDe(usuarios, remetente) = 2
    /\ \E r \in LinhasDe(transacoes, remetente) : r.categoria = "Outros"

\* C2: in every committed state, for every phone number, the amounts of the
\* user's transactions add up to the user's balance (0 without a user row).
C2_SomaIgualSaldo ==
    \A tel \in Telefones : SomaDe(transacoes, tel) = SaldoDe(usuarios, tel)

\* an add failed inside the store for a sender who has a balance
C2_Witness ==
    /\ rota = "adicionar" /\ resposta = Erro(ColunaErro)
    /\ SaldoDe(usuarios, remetente) # 0
    /\ BagCardinality(transacoes) = 2

\* C3: a balance query of a sender without transactions answers 0.00.
C3_SaldoZeroSemTransacoes ==
    (rota = "saldo" /\ LinhasDe(transacoes, remetente) = {})
    => resposta = SaldoMsg(0)

\* C4: a message whose arguments do not parse (add: second token missing or
\* not a number; budget: third token missing or not a number, which covers
\* a missing second token) gets a reply that starts with 'Erro: ' and
\* leaves the three tables as they were.
C4_ParseRejeitadoNaoMuda ==
    [][\A tel \in Telefones, txt \in Mensagens :
         ( /\ \/ rota' = "adicionar" /\ (Len(txt) < 2 \/ txt[2] \notin {"10", "-8"})
              \/ rota' = "orçamento" /\ (Len(txt) < 3 \/ txt[3] \notin {"10", "-8"})
           /\ remetente' = tel
           /\ processar_mensagem(txt, tel) )
         => (resposta'.tipo = "erro" /\ UNCHANGED tabelas)
      ]_vars

\* a budget command with a non-numeric limit was rejected on a store that holds rows
C4_Witness ==
    /\ rota = "orçamento" /\ resposta = Erro(FloatErro("abc"))
    /\ usuarios # {} /\ orcamentos # {}

\* C5: the keywords are tested in the order saldo, adicionar, relatório,
\* orçamento, investir and the first one the text holds decides alone what
\* the message does: the reply is one of that handler's and only the tables
\* that handler writes may change (none for a text holding 'saldo'); a text
\* holding no keyword gets the fixed reply and changes nothing.
C5_PrimeiraPalavraDecide ==
    [][\A tel \in Telefones, txt \in Mensagens :
         (remetente' = tel /\ processar_mensagem(txt, tel))
         => IF Contem(txt, "saldo")
            THEN UNCHANGED tabelas /\ resposta'.tipo \in {"saldo", "erro"}
            ELSE IF Contem(txt, "adicionar")
            THEN UNCHANGED orcamentos /\ resposta'.tipo \in {"sucesso", "erro"}
            ELSE IF Contem(txt, "relatório")
            THEN UNCHANGED tabelas /\ resposta'.tipo \in {"imagem", "erro"}
            ELSE IF Contem(txt, "orçamento")
            THEN UNCHANGED <<usuarios, transacoes>> /\ resposta'.tipo \in {"orcamento", "erro"}
            ELSE IF Contem(txt, "investir")
            THEN UNCHANGED tabelas /\ resposta'.tipo \in {"invista", "dividas", "erro"}
            ELSE UNCHANGED tabelas /\ resposta' = NaoReconhecido
      ]_vars

\* the text 'orçamento lazer 10 adicionar' went to the add handler, which
\* rejected 'lazer' as an amount, and no budget was set
C5_Witness ==
    /\ rota = "adicionar" /\ resposta = Erro(FloatErro("lazer"))
    /\ orcamentos = {}

\* C6: the investment suggestion answers 'invest half the balance' exactly
\* when the balance exceeds 30% of the sum of the positive amounts, and
\* 'reduce debt first' otherwise (also for a sender without any row).
C6_SugestaoPelaRegra ==
    rota = "investir"
    => LET saldo == SaldoDe(usuarios, remetente)
           renda == SomaValores(transacoes, Positivas(transacoes, remetente))
       IN  resposta = IF 10 * saldo > 3 * renda THEN Invista(saldo * 50) ELSE Dividas

\* C7: a budget command that parses leaves exactly one row for its category,
\* holding its limit, and every other row as it was (so the table is left
\* unchanged when the row was already there); no row of orcamentos ever
\* disappears or is duplicated, and the other two tables do not change.
C7_OrcamentoUltimoLimite ==
    [][ /\ \A r \in orcamentos : \E r2 \in orcamentos' : r2.categoria = r.categoria
        /\ \A r1, r2 \in orcamentos' : r1.categoria = r2.categoria => r1 = r2
        /\ \A tel \in Telefones, txt \in Mensagens :
             (rota' = "orçamento" /\ resposta'.tipo = "orcamento" /\ remetente' = tel
              /\ processar_mensagem(txt, tel))
             => LET linha == [categoria |-> txt[2], limite |-> Float(txt[3])]
                IN  /\ {r \in orcamentos' : r.categoria = txt[2]} = {linha}
                    /\ {r \in orcamentos' : r.categoria # txt[2]}
                         = {r \in orcamentos : r.categoria # txt[2]}
                    /\ (linha \in orcamentos => orcamentos' = orcamentos)
                    /\ UNCHANGED <<usuarios, transacoes>>
      ]_vars

\* two categories have a budget and the last command set lazer to -8
C7_Witness ==
    /\ rota = "orçamento" /\ resposta = OrcamentoMsg("lazer", 0 - 8)
    /\ orcamentos = {[categoria |-> "lazer", limite |-> 0 - 8],
                     [categoria |-> "casa", limite |-> 10]}
    /\ usuarios # {}

\* C8: the report of a sender whose transactions span two categories is an
\* image reference, sent as a media reply.
C8_RelatorioDuasCategorias ==
    (rota = "relatório" /\ Cardinality(CategoriasDe(transacoes, remetente)) = 2)
    => resposta = [Imagem(remetente) EXCEPT !.midia = TRUE]

\* C9: no connection is open once the reply of a message is produced.
C9_NenhumaConexaoAberta == abertas = 0

Confirmados(tel) == {p \in Procs : pc[p] \in {"confirmou", "fim"} /\ req[p].telefone = tel}

RECURSIVE SomaPedidos(_)
SomaPedidos(ps) ==
    IF ps = {} THEN 0
    ELSE LET p == CHOOSE x \in ps : TRUE IN req[p].valor + SomaPedidos(ps \ {p})

ContaDe(b, tel) == BagCardinality([r \in LinhasDe(b, tel) |-> b[r]])

\* C10: add commands handled at the same time lose no update: at any moment,
\* and so once all have committed, a sender's balance is the balance before
\* plus the amounts of the sender's committed commands, the sender has one
\* user row at most (exactly one after a commit), and the sender's
\* transactions are those before plus one per committed command.
C10_NenhumaAtualizacaoPerdida ==
    \A tel \in Telefones :
        /\ Cardinality({r \in usuarios : r.telefone = tel}) <= 1
        /\ Confirmados(tel) # {} => TemLinha(usuarios, tel)
        /\ SaldoDe(usuarios, tel) = SaldoDe(UsuariosAntes, tel) + SomaPedidos(Confirmados(tel))
        /\ ContaDe(transacoes, tel) = ContaDe(TransacoesAntes, tel) + Cardinality(Confirmados(tel))

\* every request was an add of the same sender, and all of them have committed
C10_Witness ==
    /\ \A p \in Procs : pc[p] = "fim" /\ req[p].telefone = "t1"
    /\ ContaDe(transacoes, "t1") = 1 + NumProcs

====
